---------------------------- MODULE Spec2Model ----------------------------
(***************************************************************************)
(* The four batch tools of tests/sprattus:                                 *)
(*   check.py              ResultChecker                                   *)
(*   extract_config.py     DirectiveExtractor                              *)
(*   convert_old_config.py LegacyConfigMigrator                            *)
(*   double_to_smt.py      FloatLiteralEncoder                             *)
(*                                                                         *)
(* A string is a sequence of symbols.  A symbol is one character ("\n",    *)
(* " ") or a run of characters that the tools never look inside (an        *)
(* identifier "x", a value "5", the separator " -> ", the marker           *)
(* "CONFIG:").  Concatenation of strings is \o, a list of strings is a     *)
(* sequence of strings.  Each tool is one process; pc is its position,     *)
(* stdout the lines it has printed, exitStatus its termination status.     *)
(***************************************************************************)
EXTENDS Integers, Sequences, FiniteSets, TLC

VARIABLES
    pc,          \* position of the running process
    stdout,      \* what the process has written to standard output
    exitStatus,  \* -1 while running, then the process's exit status
    argv,        \* check.py: sys.argv (argv[1] is Python's sys.argv[0])
    result,      \* check.py: the result file, as readlines() returns it
    lines,       \* check.py: the lines with the newline characters removed
    pos,         \* check.py: the index of the line the for loop is at
    fin,         \* extract_config.py: the lines that iterating the file yields
    finPos,      \* extract_config.py: the index of the line the loop is at
    original,    \* convert_old_config.py: the lines of the file before the run
    file,        \* convert_old_config.py: the lines of the file (after close)
    filePos,     \* convert_old_config.py: the index of the line the loop is at
    lines_pre,   \* convert_old_config.py
    lines_post,  \* convert_old_config.py
    yaml_src,    \* convert_old_config.py
    prefix,      \* convert_old_config.py
    yaml_dict,   \* convert_old_config.py
    domains,     \* convert_old_config.py
    x,           \* double_to_smt.py: the argument, as the 8 bytes of its
                 \* binary64 representation, most significant byte first
    ret          \* double_to_smt.py: the returned string

checkVars == <<argv, result, lines, pos>>
extractVars == <<fin, finPos>>
scanVars == <<filePos, lines_pre, lines_post, yaml_src, prefix>>
migrateVars == <<original, file, scanVars, yaml_dict, domains>>
encodeVars == <<x, ret>>
vars == <<pc, stdout, exitStatus, checkVars, extractVars, migrateVars, encodeVars>>

NL == "\n"

Marker == "CONFIG:"

Running == -1

(***************************************************************************)
(* Strings                                                                 *)
(***************************************************************************)

\* str.strip(chars): drop the leading and the trailing symbols that are in chars
RECURSIVE LStrip(_, _)
LStrip(s, chars) ==
    IF s # <<>> /\ Head(s) \in chars THEN LStrip(Tail(s), chars) ELSE s

RECURSIVE RStrip(_, _)
RStrip(s, chars) ==
    IF s # <<>> /\ s[Len(s)] \in chars
    THEN RStrip(SubSeq(s, 1, Len(s) - 1), chars)
    ELSE s

Strip(s, chars) == RStrip(LStrip(s, chars), chars)

\* str.split(sep) for a one-symbol separator: the list of the fields between
\* the separators; a string without separator is a one-field list
RECURSIVE SplitFrom(_, _, _)
SplitFrom(s, sep, field) ==
    IF s = <<>> THEN <<field>>
    ELSE IF Head(s) = sep THEN <<field>> \o SplitFrom(Tail(s), sep, <<>>)
    ELSE SplitFrom(Tail(s), sep, Append(field, Head(s)))

Split(s, sep) == SplitFrom(s, sep, <<>>)

\* the variables of a tool that is not the one running
CheckIdle == argv = <<>> /\ result = <<>> /\ lines = <<>> /\ pos = 0
ExtractIdle == fin = <<>> /\ finPos = 0
MigrateIdle ==
    /\ original = <<>> /\ file = <<>> /\ filePos = 0
    /\ lines_pre = <<>> /\ lines_post = <<>> /\ yaml_src = <<>>
    /\ prefix = <<>> /\ yaml_dict = <<>> /\ domains = <<>>
EncodeIdle == x = <<>> /\ ret = <<>>

(***************************************************************************)
(* check.py                                                                *)
(***************************************************************************)

Arrow == " -> "

\* the red bold 'Warning:' of line 6
warning == <<"Warning:">>

\* What one pass through the loop body does with `line`: the lines it prints
\* and how it leaves the body: status Running is `continue` or falling out of
\* the body (next line), 0 is sys.exit(0), 1 is the uncaught IndexError of
\* keyvalue[1] on a line without separator.
TopText == <<" is mapped to top. This is sound but maybe unintended">>
BottomText == <<" may be mapped to bottom">>
FailLines(id, actual, expected) ==
    << <<"Fail! Wrong value for ">> \o id,
       <<"Value was ">> \o actual \o <<" but should be ">> \o expected >>

\* as Body, the target looked for before the value is compared with "bottom"
BodyTargetFirst(line, args) ==
    LET keyvalue == Split(line, Arrow)
    IN  IF Len(keyvalue) < 2 THEN [print |-> <<>>, status |-> 1]
        ELSE IF Len(args) > 2 /\ keyvalue[1] = args[3]
        THEN IF keyvalue[2] = <<"top">>
             THEN [print |-> <<keyvalue[1] \o TopText>>, status |-> 0]
             ELSE IF keyvalue[2] = args[4]
             THEN [print |-> <<<<"Success">>>>, status |-> 0]
             ELSE [print |-> FailLines(keyvalue[1], keyvalue[2], args[4]),
                   status |-> 0]
        ELSE IF keyvalue[2] = <<"bottom">>
        THEN [print |-> <<warning, keyvalue[1] \o BottomText>>, status |-> Running]
        ELSE [print |-> <<>>, status |-> Running]

\* as Body, without the sys.exit(0) of line 34
BodyNoExitOnFail(line, args) ==
    LET keyvalue == Split(line, Arrow)
    IN  IF Len(keyvalue) < 2 THEN [print |-> <<>>, status |-> 1]
        ELSE IF keyvalue[2] = <<"bottom">>
        THEN [print |-> <<warning, keyvalue[1] \o BottomText>>, status |-> Running]
        ELSE IF Len(args) > 2 /\ keyvalue[1] = args[3]
        THEN IF keyvalue[2] = <<"top">>
             THEN [print |-> <<keyvalue[1] \o TopText>>, status |-> 0]
             ELSE IF keyvalue[2] = args[4]
             THEN [print |-> <<<<"Success">>>>, status |-> 0]
             ELSE [print |-> FailLines(keyvalue[1], keyvalue[2], args[4]),
                   status |-> Running]
        ELSE [print |-> <<>>, status |-> Running]

\* as Body, the value compared with the expected value before it is compared
\* with "top"
BodyExpectedBeforeTop(line, args) ==
    LET keyvalue == Split(line, Arrow)
    IN  IF Len(keyvalue) < 2 THEN [print |-> <<>>, status |-> 1]
        ELSE IF keyvalue[2] = <<"bottom">>
        THEN [print |-> <<warning, keyvalue[1] \o BottomText>>, status |-> Running]
        ELSE IF Len(args) > 2 /\ keyvalue[1] = args[3]
        THEN IF keyvalue[2] = args[4]
             THEN [print |-> <<<<"Success">>>>, status |-> 0]
             ELSE IF keyvalue[2] = <<"top">>
             THEN [print |-> <<keyvalue[1] \o TopText>>, status |-> 0]
             ELSE [print |-> FailLines(keyvalue[1], keyvalue[2], args[4]),
                   status |-> 0]
        ELSE [print |-> <<>>, status |-> Running]

\* as Body, a wrong value ends the process with sys.exit(1)
BodyFailExitsOne(line, args) ==
    LET keyvalue == Split(line, Arrow)
    IN  IF Len(keyvalue) < 2 THEN [print |-> <<>>, status |-> 1]
        ELSE IF keyvalue[2] = <<"bottom">>
        THEN [print |-> <<warning, keyvalue[1] \o BottomText>>, status |-> Running]
        ELSE IF Len(args) > 2 /\ keyvalue[1] = args[3]
        THEN IF keyvalue[2] = <<"top">>
             THEN [print |-> <<keyvalue[1] \o TopText>>, status |-> 0]
             ELSE IF keyvalue[2] = args[4]
             THEN [print |-> <<<<"Success">>>>, status |-> 0]
             ELSE [print |-> FailLines(keyvalue[1], keyvalue[2], args[4]),
                   status |-> 1]
        ELSE [print |-> <<>>, status |-> Running]

Body(line, args) ==
    LET keyvalue == Split(line, Arrow)
    IN  IF Len(keyvalue) < 2 THEN [print |-> <<>>, status |-> 1]
        ELSE IF keyvalue[2] = <<"bottom">>
        THEN [print |-> <<warning, keyvalue[1] \o BottomText>>, status |-> Running]
        ELSE IF Len(args) > 2 /\ keyvalue[1] = args[3]
        THEN IF keyvalue[2] = <<"top">>
             THEN [print |-> <<keyvalue[1] \o TopText>>, status |-> 0]
             ELSE IF keyvalue[2] = args[4]
             THEN [print |-> <<<<"Success">>>>, status |-> 0]
             ELSE [print |-> FailLines(keyvalue[1], keyvalue[2], args[4]),
                   status |-> 0]
        ELSE [print |-> <<>>, status |-> Running]

\* lines 8-12: read the file, remove the newline characters
ReadLines ==
    /\ pc = "open"
    /\ lines' = [k \in 1..Len(result) |-> Strip(result[k], {NL})]
    /\ pos' = 1
    /\ pc' = "loop"
    /\ UNCHANGED <<stdout, exitStatus, argv, result, extractVars, migrateVars, encodeVars>>

\* lines 14-34: one pass through the body of the for loop
LoopBody ==
    /\ pc = "loop"
    /\ pos <= Len(lines)
    /\ LET o == Body(lines[pos], argv)
       IN  /\ stdout' = stdout \o o.print
           /\ IF o.status = Running
              THEN /\ pos' = pos + 1
                   /\ UNCHANGED <<pc, exitStatus>>
              ELSE /\ pc' = "done"
                   /\ exitStatus' = o.status
                   /\ UNCHANGED pos
    /\ UNCHANGED <<argv, result, lines, extractVars, migrateVars, encodeVars>>

\* the for loop is exhausted: the script ends, the interpreter exits with 0
LoopEnd ==
    /\ pc = "loop"
    /\ pos > Len(lines)
    /\ pc' = "done"
    /\ exitStatus' = 0
    /\ UNCHANGED <<stdout, checkVars, extractVars, migrateVars, encodeVars>>

\* ---- the inputs ----

MaxLines == 3

Ids == {"x", "y"}
Vals == {"5", "top", "bottom"}
Expecteds == {"5", "6", "top", "bottom"}

\* the text of a result line: <identifier> -> <value>, or an empty line, or a
\* line without separator
LineTexts ==
    {<<id, Arrow, v>> : id \in Ids, v \in Vals} \cup {<<>>, <<"y">>}

\* every line of a file ends with a newline, except possibly the last
ResultFiles ==
    UNION {
        {f \in [1..n -> {Append(t, NL) : t \in LineTexts} \cup (LineTexts \ {<<>>})] :
            \A k \in 1..n : f[k][Len(f[k])] # NL => k = n}
        : n \in 0..MaxLines}

\* check <result-file> [<target-identifier> <expected-value>]
ArgLists ==
    {<<<<"check.py">>, <<"result">>>>}
    \cup {<<<<"check.py">>, <<"result">>, <<t>>, <<e>>>> : t \in Ids, e \in Expecteds}

InitCheck ==
    /\ pc = "open"
    /\ stdout = <<>>
    /\ exitStatus = Running
    /\ argv \in ArgLists
    /\ result \in ResultFiles
    /\ lines = <<>>
    /\ pos = 0
    /\ ExtractIdle
    /\ MigrateIdle
    /\ EncodeIdle

NextCheck == ReadLines \/ LoopBody \/ LoopEnd

SpecCheck == InitCheck /\ [][NextCheck]_vars

(***************************************************************************)
(* ResultChecker: the claims.  They are stated over the result file and    *)
(* the argument list, not over what the loop computed.                     *)
(***************************************************************************)

HasArgs == Len(argv) > 2
Target == argv[3]
Expected == argv[4]

\* the text of line k of the file, without its newline
TextOf(k) ==
    LET t == result[k]
    IN  IF t # <<>> /\ t[Len(t)] = NL THEN SubSeq(t, 1, Len(t) - 1) ELSE t

\* line k has the form <identifier> -> <value>
WellFormed(k) == \E j \in 1..Len(TextOf(k)) : TextOf(k)[j] = Arrow

ArrowAt(k) ==
    CHOOSE j \in 1..Len(TextOf(k)) :
        /\ TextOf(k)[j] = Arrow
        /\ \A h \in 1..(j - 1) : TextOf(k)[h] # Arrow

IdOf(k) == SubSeq(TextOf(k), 1, ArrowAt(k) - 1)
ValOf(k) == SubSeq(TextOf(k), ArrowAt(k) + 1, Len(TextOf(k)))

IsBottomLine(k) == WellFormed(k) /\ ValOf(k) = <<"bottom">>
IsTargetLine(k) == HasArgs /\ WellFormed(k) /\ IdOf(k) = Target
IsDecidingLine(k) == IsTargetLine(k) /\ ValOf(k) # <<"bottom">>
IsMalformedLine(k) == ~WellFormed(k)

\* the first line of the file with property P, 0 if there is none
FirstLine(P(_)) ==
    IF \E k \in 1..Len(result) : P(k)
    THEN CHOOSE k \in 1..Len(result) : P(k) /\ \A j \in 1..(k - 1) : ~P(j)
    ELSE 0

FirstTarget == FirstLine(IsTargetLine)
FirstDeciding == FirstLine(IsDecidingLine)
FirstMalformed == FirstLine(IsMalformedLine)

\* the line at which the scan ends before the end of the file, 0 if none
IsStopLine(k) == IsMalformedLine(k) \/ IsDecidingLine(k)
StopLine == FirstLine(IsStopLine)
LastScanned == IF StopLine = 0 THEN Len(result) ELSE StopLine

\* the bottom warnings of the lines 1..n, in the order of the lines
RECURSIVE WarningsOf(_)
WarningsOf(n) ==
    IF n = 0 THEN <<>>
    ELSE WarningsOf(n - 1) \o
         (IF IsBottomLine(n) THEN <<warning, IdOf(n) \o BottomText>> ELSE <<>>)

IsWarningOutput(l) == l = warning \/ (l # <<>> /\ <<l[Len(l)]>> = BottomText)
IsVerdictOutput(l) == ~IsWarningOutput(l)

PrintedWarnings == SelectSeq(stdout, IsWarningOutput)
PrintedVerdicts == SelectSeq(stdout, IsVerdictOutput)

\* the verdict that line k gives against the expected value
VerdictOf(k) ==
    IF ValOf(k) = <<"top">> THEN <<IdOf(k) \o TopText>>
    ELSE IF ValOf(k) = Expected THEN <<<<"Success">>>>
    ELSE FailLines(IdOf(k), ValOf(k), Expected)

\* C1 as claimed (for a file whose lines all have the separator): when the
\* process has ended, every line of the file whose value is "bottom" has
\* produced its bottom warning, also the lines after the line on which the
\* target was matched.
C1_EveryBottomLineWarned ==
    (pc = "done" /\ FirstMalformed = 0)
        => PrintedWarnings = WarningsOf(Len(result))

\* C1 amended: when the process has ended, the bottom warnings printed are
\* those of the bottom lines up to the line at which the scan ended (the first
\* target line whose value is not "bottom", or the first line without
\* separator), in line order, whatever the arguments are.
C1_ScannedBottomLinesWarned ==
    pc = "done" => PrintedWarnings = WarningsOf(LastScanned)

C1_Witness ==
    /\ pc = "done"
    /\ HasArgs
    /\ Len(result) = 3
    /\ IsBottomLine(1) /\ IdOf(1) # Target
    /\ IsDecidingLine(2)
    /\ IsBottomLine(3)
    /\ PrintedWarnings = <<warning, IdOf(1) \o BottomText>>

\* C2 as claimed: with target and expected supplied, a verdict that is
\* printed is the verdict of the first line whose identifier equals target,
\* whatever its value is (also "bottom").
C2_FirstTargetLineDecides ==
    (pc = "done" /\ HasArgs /\ PrintedVerdicts # <<>>)
        => (FirstTarget # 0 /\ PrintedVerdicts = VerdictOf(FirstTarget))

\* C2 amended: with target and expected supplied, the verdict is the verdict
\* of the first line whose identifier equals target and whose value is not
\* "bottom", provided the scan reaches it (no earlier line lacks the
\* separator); otherwise no verdict is printed.  No later line contributes.
C2_FirstNonBottomTargetLineDecides ==
    (pc = "done" /\ HasArgs)
        => IF FirstDeciding # 0 /\ (FirstMalformed = 0 \/ FirstDeciding < FirstMalformed)
           THEN PrintedVerdicts = VerdictOf(FirstDeciding)
           ELSE PrintedVerdicts = <<>>

C2_Witness ==
    /\ pc = "done"
    /\ HasArgs
    /\ FirstTarget = 1 /\ IsBottomLine(1)
    /\ FirstDeciding = 2
    /\ Len(result) = 3 /\ IsDecidingLine(3) /\ ValOf(3) # ValOf(2)
    /\ PrintedVerdicts = VerdictOf(2)
    /\ PrintedVerdicts # VerdictOf(3)

\* the loop is at a line whose identifier equals the supplied target
AtTargetLine ==
    /\ pc = "loop"
    /\ pos <= Len(result)
    /\ IsTargetLine(pos)

StopsWithVerdict ==
    /\ stdout' = stdout \o VerdictOf(pos)
    /\ pc' = "done"
    /\ exitStatus' = 0
    /\ pos' = pos

\* C3 as claimed: when the scan reaches a line whose identifier equals the
\* supplied target, exactly one verdict is printed (top-override, else
\* success, else failure) and the scan stops there.
C3_TargetLineStops == [][AtTargetLine => StopsWithVerdict]_vars

\* C3 amended: when the scan reaches a line whose identifier equals the
\* supplied target and whose value is not "bottom", exactly one verdict is
\* printed (top-override irrespective of expected, else success, else
\* failure naming identifier, value and expected value) and the scan stops
\* there with status 0.
C3_NonBottomTargetLineStops ==
    [][(AtTargetLine /\ IsDecidingLine(pos)) => StopsWithVerdict]_vars

C3_Witness ==
    /\ pc = "done"
    /\ pos < Len(result)
    /\ IsDecidingLine(pos)
    /\ ValOf(pos) = <<"top">> /\ Expected = <<"top">>
    /\ stdout = <<IdOf(pos) \o TopText>>
    /\ exitStatus = 0

\* C4 as claimed: the process ends with status 0 whatever the file holds.
C4_AlwaysStatusZero == pc = "done" => exitStatus = 0

\* a line without separator is reached by the scan
MalformedScanned ==
    FirstMalformed # 0 /\ (FirstDeciding = 0 \/ FirstMalformed < FirstDeciding)

\* C4 amended: the process always ends; its status is 0 for every outcome
\* (success, mismatch, top-override, warnings only, target not found) unless
\* the scan reaches a line without the " -> " separator, and then it is 1.
C4_StatusZeroUnlessMalformed ==
    /\ pc # "done" => ENABLED NextCheck
    /\ pc = "done" => exitStatus = IF MalformedScanned THEN 1 ELSE 0

C4_Witness ==
    /\ pc = "done"
    /\ exitStatus = 0
    /\ HasArgs
    /\ FirstDeciding = 1
    /\ PrintedVerdicts = FailLines(Target, ValOf(1), Expected)
    /\ FirstMalformed = 2

(***************************************************************************)
(* extract_config.py                                                       *)
(***************************************************************************)

\* str.strip() without argument strips whitespace
Whitespace == {" ", "\t", NL}

\* the index of the first symbol of s at or after `from` that is in set, 0 if none
RECURSIVE IndexFrom(_, _, _)
IndexFrom(s, from, set) ==
    IF from > Len(s) THEN 0
    ELSE IF s[from] \in set THEN from
    ELSE IndexFrom(s, from + 1, set)

\* as FindAllConfig, with the `.*` in front of the marker that config_re of
\* convert_old_config.py has: the match is at the last marker before the newline
RECURSIVE FindAllLastMarker(_, _)
FindAllLastMarker(s, from) ==
    LET m == IndexFrom(s, from, {Marker})
        n == IF m = 0 THEN 0 ELSE IndexFrom(s, m + 1, {NL})
        last == CHOOSE j \in m..n :
                    s[j] = Marker /\ \A h \in (j + 1)..n : s[h] # Marker
    IN  IF m = 0 \/ n = 0 THEN <<>>
        ELSE <<SubSeq(s, last + 1, n)>> \o FindAllLastMarker(s, n + 1)

\* config_re.findall(s), config_re = "(CONFIG:)(.*\n)": the second group of
\* every non-overlapping match, leftmost first.  A match starts at a marker
\* and runs through the next newline (`.` matches no newline, `.*` is greedy,
\* so later markers of the line are inside the group); a marker with no
\* newline after it matches nothing.
RECURSIVE FindAllConfig(_, _)
FindAllConfig(s, from) ==
    LET m == IndexFrom(s, from, {Marker})
        n == IF m = 0 THEN 0 ELSE IndexFrom(s, m + 1, {NL})
    IN  IF m = 0 \/ n = 0 THEN <<>>
        ELSE <<SubSeq(s, m + 1, n)>> \o FindAllConfig(s, n + 1)

\* line 12 for every element of the findall list
WriteAll(found) == [k \in 1..Len(found) |-> Strip(found[k], Whitespace) \o <<NL>>]

\* lines 9-12: one pass through the loop body; the assert of line 10 raises
\* AssertionError, which nothing catches
ExtractLine ==
    /\ pc = "extract"
    /\ finPos <= Len(fin)
    /\ LET line == fin[finPos]
       IN  IF line # <<>> /\ line[Len(line)] = NL
           THEN /\ stdout' = stdout \o WriteAll(FindAllConfig(line, 1))
                /\ finPos' = finPos + 1
                /\ UNCHANGED <<pc, exitStatus>>
           ELSE /\ pc' = "done"
                /\ exitStatus' = 1
                /\ UNCHANGED <<stdout, finPos>>
    /\ UNCHANGED <<fin, checkVars, migrateVars, encodeVars>>

\* the loop is exhausted, main returns, the file is closed
ExtractEnd ==
    /\ pc = "extract"
    /\ finPos > Len(fin)
    /\ pc' = "done"
    /\ exitStatus' = 0
    /\ UNCHANGED <<stdout, fin, finPos, checkVars, migrateVars, encodeVars>>

\* ---- the inputs ----

MaxFinLines == 3

\* the texts of the lines of an annotated file
FinTexts ==
    { <<"a">>, <<"b">>, <<>>,
      <<"//", " ", Marker, " ", "x=1">>,
      <<Marker, "y=2", " ">>,
      <<Marker>>,
      <<"//", Marker, " ", "x=1", " ", Marker, "y=2">> }

\* iterating a file yields lines that end with a newline, except possibly the
\* last one, which is then not empty
FinFiles ==
    UNION {
        {f \in [1..n -> {Append(t, NL) : t \in FinTexts} \cup (FinTexts \ {<<>>})] :
            \A k \in 1..n : f[k][Len(f[k])] # NL => k = n}
        : n \in 0..MaxFinLines}

InitExtract ==
    /\ pc = "extract"
    /\ stdout = <<>>
    /\ exitStatus = Running
    /\ fin \in FinFiles
    /\ finPos = 1
    /\ CheckIdle
    /\ MigrateIdle
    /\ EncodeIdle

NextExtract == ExtractLine \/ ExtractEnd

SpecExtract == InitExtract /\ [][NextExtract]_vars

(***************************************************************************)
(* DirectiveExtractor: the claims                                          *)
(***************************************************************************)

Terminated(line) == line # <<>> /\ line[Len(line)] = NL

\* C5 as claimed: when the extraction has failed on a line without
\* terminator, nothing has been written to standard output.
C5_NoOutputOnFailure ==
    (pc = "done" /\ exitStatus # 0) => stdout = <<>>

HasMarker(line) == \E j \in 1..Len(line) : line[j] = Marker

\* the text that follows the first marker of the line, up to the terminator
AfterMarker(line) ==
    LET j == CHOOSE j \in 1..Len(line) :
                 line[j] = Marker /\ \A h \in 1..(j - 1) : line[h] # Marker
    IN  SubSeq(line, j + 1, Len(line) - 1)

\* s without the whitespace at its two ends
Trimmed(s) ==
    LET inked == {j \in 1..Len(s) : s[j] \notin Whitespace}
    IN  IF inked = {} THEN <<>>
        ELSE SubSeq(s, CHOOSE j \in inked : \A h \in inked : j <= h,
                       CHOOSE j \in inked : \A h \in inked : j >= h)

\* one entry per line of f[1..n] that has the marker, in the order of the lines
RECURSIVE PayloadsOf(_, _)
PayloadsOf(f, n) ==
    IF n = 0 THEN <<>>
    ELSE PayloadsOf(f, n - 1) \o
         (IF HasMarker(f[n]) THEN <<Trimmed(AfterMarker(f[n])) \o <<NL>>>> ELSE <<>>)

\* C9: for a sequence of terminator-ended lines the extraction succeeds and
\* its output is exactly the trimmed texts that follow the (first) marker on
\* the lines that have the marker, one entry per such line, in input order;
\* the other lines contribute nothing.
C9_OutputIsPayloads ==
    (pc = "done" /\ \A k \in 1..Len(fin) : Terminated(fin[k]))
        => (exitStatus = 0 /\ stdout = PayloadsOf(fin, Len(fin)))

C9_Witness ==
    /\ pc = "done"
    /\ exitStatus = 0
    /\ fin = << <<"a", NL>>, <<"//", " ", Marker, " ", "x=1", NL>>, <<"b", NL>> >>
    /\ stdout = << <<"x=1", NL>> >>

(***************************************************************************)
(* convert_old_config.py                                                   *)
(***************************************************************************)

\* the value of `prefix` before the first match; '%s' % None is "None"
None == <<"None">>

\* config_re.match(line), config_re = "^(.*CONFIG:)(.*)$": `.` matches no
\* newline and `$` matches before the newline that ends the line; the first
\* `.*` is greedy, so group 1 ends with the last marker of the line.
\* The result is <<group 1, group 2>>, or <<>> for no match.
MatchConfig(line) ==
    LET body == IF line # <<>> /\ line[Len(line)] = NL
                THEN SubSeq(line, 1, Len(line) - 1) ELSE line
        marks == {j \in 1..Len(body) : body[j] = Marker}
        last == CHOOSE j \in marks : \A h \in marks : h <= j
    IN  IF marks = {} \/ \E j \in 1..Len(body) : body[j] = NL THEN <<>>
        ELSE <<SubSeq(body, 1, last), SubSeq(body, last + 1, Len(body))>>

\* ---- yaml.load, for the documents the directive lines can make ----
\* A document line is indentation, then one symbol: a block mapping entry
\* "key: value", a plain scalar, or something that no document can hold.

AbstractDomain == "AbstractDomain"

Scalar(v) == [list |-> FALSE, items |-> <<v>>]
List(vs) == [list |-> TRUE, items |-> vs]

EntrySymbols ==
    {"widening: 3", "depth: 2", "AbstractDomain: [Interval, Octagon]",
     "AbstractDomain: 3"}
ScalarSymbols == {"x"}

EntryKey(sym) ==
    CASE sym = "widening: 3" -> "widening"
      [] sym = "depth: 2" -> "depth"
      [] sym = "AbstractDomain: [Interval, Octagon]" -> AbstractDomain
      [] sym = "AbstractDomain: 3" -> AbstractDomain

EntryValue(sym) ==
    CASE sym = "widening: 3" -> Scalar("3")
      [] sym = "depth: 2" -> Scalar("2")
      [] sym = "AbstractDomain: [Interval, Octagon]" -> List(<<"Interval", "Octagon">>)
      [] sym = "AbstractDomain: 3" -> Scalar("3")

Indent(l) == Len(l) - Len(LStrip(l, {" "}))

\* the keys of the entries, each once, in the order of their first occurrence
RECURSIVE KeysOf(_)
KeysOf(entries) ==
    IF entries = <<>> THEN <<>>
    ELSE LET front == KeysOf(SubSeq(entries, 1, Len(entries) - 1))
             k == EntryKey(entries[Len(entries)])
         IN  IF \E j \in 1..Len(front) : front[j] = k THEN front
             ELSE Append(front, k)

\* kind "error": yaml.load raises; "none": the document is empty (None);
\* "scalar": a string; "map": a dict, a later entry of a key replacing an
\* earlier one
YamlValue(kind, keys, vals) == [kind |-> kind, keys |-> keys, vals |-> vals]

YamlLoad(src) ==
    LET all == Split(src, NL)
        content == SelectSeq(all, LAMBDA l : Strip(l, {" "}) # <<>>)
        body(k) == Strip(content[k], {" "})
        n == Len(content)
        entries == [k \in 1..n |-> body(k)[1]]
        keys == KeysOf(entries)
    IN  IF n = 0 THEN YamlValue("none", <<>>, <<>>)
        ELSE IF \E k \in 1..n :
                    Len(body(k)) # 1 \/ body(k)[1] \notin EntrySymbols \cup ScalarSymbols
        THEN YamlValue("error", <<>>, <<>>)
        ELSE IF \A k \in 1..n : body(k)[1] \in ScalarSymbols
        THEN YamlValue("scalar", <<>>, <<>>)
        ELSE IF /\ \A k \in 1..n : body(k)[1] \in EntrySymbols
                /\ \A k \in 1..n : Indent(content[k]) = Indent(content[1])
        THEN YamlValue("map", keys,
                 [key \in {keys[j] : j \in 1..Len(keys)} |->
                     LET at == CHOOSE j \in 1..n :
                                 /\ EntryKey(entries[j]) = key
                                 /\ \A h \in (j + 1)..n : EntryKey(entries[h]) # key
                     IN  EntryValue(entries[at])])
        ELSE YamlValue("error", <<>>, <<>>)

\* sep.join(parts)
RECURSIVE Join(_, _)
Join(sep, parts) ==
    IF parts = <<>> THEN <<>>
    ELSE IF Len(parts) = 1 THEN parts[1]
    ELSE parts[1] \o sep \o Join(sep, Tail(parts))

\* '%s' % v
Format(v) ==
    IF v.list
    THEN <<"[">> \o Join(<<", ">>, [k \in 1..Len(v.items) |-> <<"'", v.items[k], "'">>])
              \o <<"]">>
    ELSE v.items

\* lines 16-25 with every non-matching line appended to lines_pre
ScanLineAllPre ==
    /\ pc = "scan"
    /\ filePos <= Len(file)
    /\ LET line == file[filePos]
           m == MatchConfig(line)
       IN  IF m = <<>>
           THEN /\ lines_pre' = Append(lines_pre, line)
                /\ UNCHANGED <<lines_post, yaml_src, prefix>>
           ELSE /\ yaml_src' = yaml_src \o <<NL>> \o m[2]
                /\ prefix' = m[1]
                /\ UNCHANGED <<lines_pre, lines_post>>
    /\ filePos' = filePos + 1
    /\ UNCHANGED <<pc, stdout, exitStatus, original, file, yaml_dict, domains,
                   checkVars, extractVars, encodeVars>>

\* lines 16-25: one pass through the body of the loop over the file's lines
ScanLine ==
    /\ pc = "scan"
    /\ filePos <= Len(file)
    /\ LET line == file[filePos]
           m == MatchConfig(line)
       IN  IF m = <<>>
           THEN IF prefix = None
                THEN /\ lines_pre' = Append(lines_pre, line)
                     /\ UNCHANGED <<lines_post, yaml_src, prefix>>
                ELSE /\ lines_post' = Append(lines_post, line)
                     /\ UNCHANGED <<lines_pre, yaml_src, prefix>>
           ELSE /\ yaml_src' = yaml_src \o <<NL>> \o m[2]
                /\ prefix' = m[1]
                /\ UNCHANGED <<lines_pre, lines_post>>
    /\ filePos' = filePos + 1
    /\ UNCHANGED <<pc, stdout, exitStatus, original, file, yaml_dict, domains,
                   checkVars, extractVars, encodeVars>>

\* line 28, after the loop: yaml.load raises on an unparsable document
Load ==
    /\ pc = "scan"
    /\ filePos > Len(file)
    /\ LET d == YamlLoad(yaml_src)
       IN  IF d.kind = "error"
           THEN /\ pc' = "done"
                /\ exitStatus' = 1
                /\ UNCHANGED yaml_dict
           ELSE /\ pc' = "open"
                /\ yaml_dict' = d
                /\ UNCHANGED exitStatus
    /\ UNCHANGED <<stdout, original, file, scanVars, domains, checkVars, extractVars, encodeVars>>

\* lines 30-32: open(file_name, 'w') empties the file, then lines_pre is written
WritePre ==
    /\ pc = "open"
    /\ file' = lines_pre
    /\ pc' = "domains"
    /\ UNCHANGED <<stdout, exitStatus, original, scanVars, yaml_dict, domains,
                   checkVars, extractVars, encodeVars>>

\* lines 34-35: yaml_dict['AbstractDomain'] raises TypeError on None and on a
\* string, KeyError on a dict without the key; the `with` closes the file
TakeDomains ==
    /\ pc = "domains"
    /\ IF yaml_dict.kind = "map" /\ AbstractDomain \in DOMAIN yaml_dict.vals
       THEN /\ domains' = yaml_dict.vals[AbstractDomain]
            /\ yaml_dict' =
                 YamlValue("map",
                     SelectSeq(yaml_dict.keys, LAMBDA k : k # AbstractDomain),
                     [k \in DOMAIN yaml_dict.vals \ {AbstractDomain} |-> yaml_dict.vals[k]])
            /\ pc' = "items"
            /\ UNCHANGED exitStatus
       ELSE /\ pc' = "done"
            /\ exitStatus' = 1
            /\ UNCHANGED <<yaml_dict, domains>>
    /\ UNCHANGED <<stdout, original, file, scanVars, checkVars, extractVars, encodeVars>>

\* lines 37-38: one line per item; the order of a dict's items is not fixed
WriteItems ==
    /\ pc = "items"
    /\ \E order \in [1..Len(yaml_dict.keys) -> DOMAIN yaml_dict.vals] :
        /\ \A a, b \in 1..Len(yaml_dict.keys) : order[a] = order[b] => a = b
        /\ file' = file \o
               [j \in 1..Len(yaml_dict.keys) |->
                   prefix \o <<" config.", order[j], " = ">>
                          \o Format(yaml_dict.vals[order[j]]) \o <<NL>>]
    /\ pc' = "domlist"
    /\ UNCHANGED <<stdout, exitStatus, original, scanVars, yaml_dict, domains,
                   checkVars, extractVars, encodeVars>>

\* lines 40-41: iterating a value that is no list (here an int) raises TypeError
WriteDomains ==
    /\ pc = "domlist"
    /\ IF domains.list
       THEN /\ LET domlist ==
                     Join(<<", ">>,
                          [j \in 1..Len(domains.items) |->
                              <<"globals()['", domains.items[j], "']">>])
               IN  file' = Append(file,
                       prefix \o <<" config.AbstractDomain = [">> \o domlist
                              \o <<"]", NL>>)
            /\ pc' = "post"
            /\ UNCHANGED exitStatus
       ELSE /\ pc' = "done"
            /\ exitStatus' = 1
            /\ UNCHANGED file
    /\ UNCHANGED <<stdout, original, scanVars, yaml_dict, domains, checkVars, extractVars, encodeVars>>

\* lines 43-44: lines_post is written, the file is closed, main returns
WritePost ==
    /\ pc = "post"
    /\ file' = file \o lines_post
    /\ pc' = "done"
    /\ exitStatus' = 0
    /\ UNCHANGED <<stdout, original, scanVars, yaml_dict, domains, checkVars, extractVars, encodeVars>>

\* ---- the inputs ----

MaxFileLines == 4

FileTexts ==
    { <<"code1">>, <<"code2">>,
      <<"//", " ", Marker, " ", "widening: 3">>,
      <<"#", " ", Marker, " ", "AbstractDomain: [Interval, Octagon]">>,
      <<"/*", Marker, "*/", " ", Marker, " ", "depth: 2">>,
      <<"//", " ", Marker, " ", "AbstractDomain: 3">>,
      <<"//", " ", Marker, " ", "{">>,
      <<"//", " ", Marker, "x">> }

Files == UNION {[1..n -> {Append(t, NL) : t \in FileTexts}] : n \in 0..MaxFileLines}

InitMigrate ==
    /\ pc = "scan"
    /\ stdout = <<>>
    /\ exitStatus = Running
    /\ original \in Files
    /\ file = original
    /\ filePos = 1
    /\ lines_pre = <<>>
    /\ lines_post = <<>>
    /\ yaml_src = <<>>
    /\ prefix = None
    /\ yaml_dict = YamlValue("none", <<>>, <<>>)
    /\ domains = Scalar("")
    /\ CheckIdle
    /\ ExtractIdle
    /\ EncodeIdle

NextMigrate ==
    ScanLine \/ Load \/ WritePre \/ TakeDomains \/ WriteItems \/ WriteDomains \/ WritePost

SpecMigrate == InitMigrate /\ [][NextMigrate]_vars

(***************************************************************************)
(* LegacyConfigMigrator: the claims, stated over the file before the run   *)
(* (original) and the file after it (file).                                *)
(***************************************************************************)

Migrated == pc = "done" /\ exitStatus = 0
MigrationFailed == pc = "done" /\ exitStatus # 0

IsDirective(k) == HasMarker(original[k])
Directives == {k \in 1..Len(original) : IsDirective(k)}
FirstDirective == CHOOSE k \in Directives : \A h \in Directives : k <= h

\* region (1): the lines before the first directive line
LeadingRegion ==
    IF Directives = {} THEN original ELSE SubSeq(original, 1, FirstDirective - 1)

\* region (3): the lines after the first directive line that are no directive
TrailingRegion ==
    IF Directives = {} THEN <<>>
    ELSE SelectSeq(SubSeq(original, FirstDirective + 1, Len(original)),
                   LAMBDA l : ~HasMarker(l))

\* region (2) of the file after the run: what lies between (1) and (3)
GeneratedRegion ==
    SubSeq(file, Len(LeadingRegion) + 1, Len(file) - Len(TrailingRegion))

\* the document that the payloads of the directive lines make, in line order
RECURSIVE DocumentText(_)
DocumentText(n) ==
    IF n = 0 THEN <<>>
    ELSE DocumentText(n - 1) \o
         (IF IsDirective(n) THEN <<NL>> \o MatchConfig(original[n])[2] ELSE <<>>)

Document == YamlLoad(DocumentText(Len(original)))
OtherKeys == DOMAIN Document.vals \ {AbstractDomain}

\* the prefix of directive line k: its text up to and including the marker
PrefixOf(k) == MatchConfig(original[k])[1]

StartsWith(l, p) == Len(l) >= Len(p) /\ SubSeq(l, 1, Len(p)) = p

ItemLine(p, key) ==
    p \o <<" config.", key, " = ">> \o Format(Document.vals[key]) \o <<NL>>

DomainLine(p) ==
    LET ids == Document.vals[AbstractDomain].items
    IN  p \o <<" config.AbstractDomain = [">>
          \o Join(<<", ">>, [j \in 1..Len(ids) |-> <<"globals()['", ids[j], "']">>])
          \o <<"]", NL>>

Occurrences(seq, l) == Cardinality({j \in 1..Len(seq) : seq[j] = l})

\* C6 as claimed: when migrate has failed, the file is what it was before
\* the call.
C6_FailedMigrationKeepsFile == MigrationFailed => file = original

\* C7 as claimed: after a successful migration every generated directive
\* line starts with the prefix of the first directive line of the input.
C7_PrefixOfFirstMatch ==
    Migrated =>
        \A j \in 1..Len(GeneratedRegion) :
            StartsWith(GeneratedRegion[j], PrefixOf(FirstDirective))

\* C8: after a successful migration the file is (1) the lines before the
\* first directive line, (2) the generated lines: exactly one
\* `<prefix> config.<key> = <value>` line per parsed key other than
\* AbstractDomain and exactly one config.AbstractDomain line with one named
\* lookup per domain identifier in document order, all with one prefix taken
\* from a directive line, (3) the non-directive lines after the first
\* directive line; (1) and (3) verbatim and in input order, and no line with
\* the marker in (1) or (3).
C8_OutputLayout ==
    Migrated =>
        /\ Len(file) = Len(LeadingRegion) + Cardinality(OtherKeys) + 1
                          + Len(TrailingRegion)
        /\ SubSeq(file, 1, Len(LeadingRegion)) = LeadingRegion
        /\ SubSeq(file, Len(file) - Len(TrailingRegion) + 1, Len(file)) = TrailingRegion
        /\ \E k \in Directives :
             /\ \A key \in OtherKeys :
                    Occurrences(GeneratedRegion, ItemLine(PrefixOf(k), key)) = 1
             /\ Occurrences(GeneratedRegion, DomainLine(PrefixOf(k))) = 1
        /\ \A j \in (1..Len(LeadingRegion))
                     \cup ((Len(file) - Len(TrailingRegion) + 1)..Len(file)) :
             ~HasMarker(file[j])

C8_Witness ==
    /\ Migrated
    /\ Len(original) = 4
    /\ Directives = {2, 4}
    /\ LeadingRegion = <<original[1]>>
    /\ TrailingRegion = <<original[3]>>
    /\ original[1] # original[3]
    /\ OtherKeys = {"widening"}
    /\ file = << original[1],
                 <<"#", " ", Marker, " config.", "widening", " = ", "3", NL>>,
                 <<"#", " ", Marker, " config.AbstractDomain = [",
                   "globals()['", "Interval", "']", ", ",
                   "globals()['", "Octagon", "']", "]", NL>>,
                 original[3] >>

(***************************************************************************)
(* double_to_smt.py                                                        *)
(*                                                                         *)
(* A Python integer is unbounded.  It is kept here as the sequence of its  *)
(* base-256 digits ("limbs"), most significant first (leading zeros        *)
(* allowed).  For a radix that is a power of two, format() and int() move  *)
(* whole groups of bits between the limbs and the characters, which is     *)
(* what is done here with 8 bits (2 hex digits) to the limb.               *)
(***************************************************************************)

Base == 256

\* struct.pack('!d', x): the 8 bytes of the double, network byte order;
\* struct.unpack('!Q', ...)[0]: the unsigned integer these bytes spell
Pack(d) == d
Unpack(bytes) == bytes

DigitChars ==
    <<"0", "1", "2", "3", "4", "5", "6", "7", "8", "9", "a", "b", "c", "d", "e", "f">>

DigitValue(c) == (CHOOSE v \in 1..Len(DigitChars) : DigitChars[v] = c) - 1

\* the number of digits of the radix (2 or 16) that one limb holds
DigitsPerLimb(radix) == IF radix = 2 THEN 8 ELSE 2

\* the digits of one limb, all of them, most significant first
LimbDigits(v, radix) ==
    [k \in 1..DigitsPerLimb(radix) |->
        DigitChars[((v \div (radix ^ (DigitsPerLimb(radix) - k))) % radix) + 1]]

RECURSIVE AllDigits(_, _)
AllDigits(n, radix) ==
    IF n = <<>> THEN <<>>
    ELSE LimbDigits(Head(n), radix) \o AllDigits(Tail(n), radix)

\* the digits of n without leading zeros, "0" for zero
DigitsOf(n, radix) ==
    LET all == AllDigits(n, radix)
        rest == LStrip(all, {"0"})
    IN  IF rest = <<>> THEN <<"0">> ELSE rest

\* format(n, '0<width>b') and format(n, '0<width>x'): the digits, filled with
\* zeros on the left up to the width
FormatInt(n, width, radix) ==
    LET digits == DigitsOf(n, radix)
    IN  [k \in 1..(IF Len(digits) < width THEN width - Len(digits) ELSE 0) |-> "0"]
        \o digits

\* the value of a group of digits that fits a limb
RECURSIVE LimbValue(_, _)
LimbValue(s, radix) ==
    IF s = <<>> THEN 0
    ELSE LimbValue(SubSeq(s, 1, Len(s) - 1), radix) * radix + DigitValue(s[Len(s)])

\* int(s, radix): the digits are taken in groups of one limb from the right
RECURSIVE ParseInt(_, _)
ParseInt(s, radix) ==
    IF Len(s) <= DigitsPerLimb(radix) THEN <<LimbValue(s, radix)>>
    ELSE Append(ParseInt(SubSeq(s, 1, Len(s) - DigitsPerLimb(radix)), radix),
                LimbValue(SubSeq(s, Len(s) - DigitsPerLimb(radix) + 1, Len(s)), radix))

\* as Slice, with a taken for the position of the first character, not for
\* the number of characters in front of it
SliceOneBased(s, a, b) == SubSeq(s, a, b)

\* Python's s[a:b] for 0 <= a; the end is clipped to the length
Slice(s, a, b) == SubSeq(s, a + 1, IF b < Len(s) THEN b ELSE Len(s))

\* lines 8-16
double_to_smt(d) ==
    LET as_ull == Unpack(Pack(d))
        bits == FormatInt(as_ull, 64, 2)
        exponent == Slice(bits, 1, 12)
        significand == FormatInt(ParseInt(Slice(bits, 12, Len(bits)), 2), 13, 16)
    IN  <<"(fp #b">> \o <<bits[1]>> \o <<" #b">> \o exponent \o <<" #x">>
          \o significand \o <<")">>

Encode ==
    /\ pc = "call"
    /\ ret' = double_to_smt(x)
    /\ pc' = "done"
    /\ UNCHANGED <<x, stdout, exitStatus, checkVars, extractVars, migrateVars>>

\* ---- the inputs ----

\* the doubles of gen_literal_test, lines 20-21, as bytes
One == <<63, 240, 0, 0, 0, 0, 0, 0>>
PlusZero == <<0, 0, 0, 0, 0, 0, 0, 0>>
MinusZero == <<128, 0, 0, 0, 0, 0, 0, 0>>
MinSubnormal == <<0, 0, 0, 0, 0, 0, 0, 1>>

\* byte values per position: the first two bytes of 1.0, -1.0, 2.0, -2.0,
\* +0.0, -0.0, +inf, -inf and the last byte of the least subnormals among
\* them, and values that put ones and zeros on both sides of every field
\* and digit boundary
ByteChoices ==
    << {0, 63, 64, 127, 128, 191, 192, 255},
       {0, 240, 15, 165},
       {0, 90, 255},
       {0, 90, 255},
       {0, 195},
       {0, 60},
       {0, 129},
       {0, 1, 255} >>

Doubles ==
    { <<b1, b2, b3, b4, b5, b6, b7, b8>> :
        b1 \in ByteChoices[1], b2 \in ByteChoices[2], b3 \in ByteChoices[3],
        b4 \in ByteChoices[4], b5 \in ByteChoices[5], b6 \in ByteChoices[6],
        b7 \in ByteChoices[7], b8 \in ByteChoices[8] }

InitEncode ==
    /\ pc = "call"
    /\ stdout = <<>>
    /\ exitStatus = Running
    /\ x \in Doubles
    /\ ret = <<>>
    /\ CheckIdle
    /\ ExtractIdle
    /\ MigrateIdle

NextEncode == Encode

SpecEncode == InitEncode /\ [][NextEncode]_vars

(***************************************************************************)
(* FloatLiteralEncoder: the claims                                         *)
(***************************************************************************)

BitChars == {"0", "1"}
HexChars ==
    {"0", "1", "2", "3", "4", "5", "6", "7", "8", "9", "a", "b", "c", "d", "e", "f"}

\* the four bits that a lowercase hexadecimal digit denotes
NibbleBits(c) ==
    CASE c = "0" -> <<"0", "0", "0", "0">> [] c = "1" -> <<"0", "0", "0", "1">>
      [] c = "2" -> <<"0", "0", "1", "0">> [] c = "3" -> <<"0", "0", "1", "1">>
      [] c = "4" -> <<"0", "1", "0", "0">> [] c = "5" -> <<"0", "1", "0", "1">>
      [] c = "6" -> <<"0", "1", "1", "0">> [] c = "7" -> <<"0", "1", "1", "1">>
      [] c = "8" -> <<"1", "0", "0", "0">> [] c = "9" -> <<"1", "0", "0", "1">>
      [] c = "a" -> <<"1", "0", "1", "0">> [] c = "b" -> <<"1", "0", "1", "1">>
      [] c = "c" -> <<"1", "1", "0", "0">> [] c = "d" -> <<"1", "1", "0", "1">>
      [] c = "e" -> <<"1", "1", "1", "0">> [] c = "f" -> <<"1", "1", "1", "1">>

RECURSIVE HexBits(_)
HexBits(h) == IF h = <<>> THEN <<>> ELSE NibbleBits(Head(h)) \o HexBits(Tail(h))

\* the fields of a literal (fp #b<sign> #b<exponent> #x<significand>)
SignField(l) == SubSeq(l, 2, 2)
ExponentField(l) == SubSeq(l, 4, 14)
SignificandField(l) == SubSeq(l, 16, 28)

WellFormedLiteral(l) ==
    /\ Len(l) = 29
    /\ l[1] = "(fp #b" /\ l[3] = " #b" /\ l[15] = " #x" /\ l[29] = ")"
    /\ \A k \in 1..1 : SignField(l)[k] \in BitChars
    /\ \A k \in 1..11 : ExponentField(l)[k] \in BitChars
    /\ \A k \in 1..13 : SignificandField(l)[k] \in HexChars

\* the 64 bits that the fields of the literal spell
LiteralBits(l) ==
    SignField(l) \o ExponentField(l) \o HexBits(SignificandField(l))

\* byte k (1..8) of a 64-bit string
ByteOfBits(b, k) ==
    LET bit(j) == IF b[8 * (k - 1) + j] = "1" THEN 1 ELSE 0
    IN  128 * bit(1) + 64 * bit(2) + 32 * bit(3) + 16 * bit(4)
          + 8 * bit(5) + 4 * bit(6) + 2 * bit(7) + bit(8)

Zeros(n) == [k \in 1..n |-> "0"]

\* C10: the returned literal has the form
\* (fp #b<1 bit> #b<11 bits> #x<13 lowercase hex digits>), and the sign bit,
\* the exponent bits and the 52 bits that the hex field denotes, concatenated,
\* are the 64 bits of the argument; 1.0 is (fp #b0 #b01111111111
\* #x0000000000000), and +0.0 and -0.0 differ in the sign field only.
C10_RoundTrip ==
    pc = "done" =>
        /\ WellFormedLiteral(ret)
        /\ Len(LiteralBits(ret)) = 64
        /\ \A k \in 1..8 : ByteOfBits(LiteralBits(ret), k) = x[k]
        /\ x = One =>
             ret = <<"(fp #b", "0", " #b">>
                     \o <<"0", "1", "1", "1", "1", "1", "1", "1", "1", "1", "1">>
                     \o <<" #x">> \o Zeros(13) \o <<")">>
        /\ x = PlusZero =>
             ret = <<"(fp #b", "0", " #b">> \o Zeros(11) \o <<" #x">> \o Zeros(13) \o <<")">>
        /\ x = MinusZero =>
             ret = <<"(fp #b", "1", " #b">> \o Zeros(11) \o <<" #x">> \o Zeros(13) \o <<")">>
        /\ x = MinSubnormal =>
             ret = <<"(fp #b", "0", " #b">> \o Zeros(11) \o <<" #x">> \o Zeros(12)
                     \o <<"1", ")">>

C10_Witness ==
    /\ pc = "done"
    /\ x = <<191, 165, 90, 255, 195, 60, 129, 1>>
    /\ ret = <<"(fp #b", "1", " #b">>
               \o <<"0", "1", "1", "1", "1", "1", "1", "1", "0", "1", "0">>
               \o <<" #x">>
               \o <<"5", "5", "a", "f", "f", "c", "3", "3", "c", "8", "1", "0", "1">>
               \o <<")">>

=============================================================================
